---- MODULE Spec2Model ----
(***************************************************************************)
(* Explicit-free-list allocator of "Lab 7 - Malloc Lab/mm.c".              *)
(*                                                                         *)
(* The heap is a map from byte addresses of 8-byte words to word values.   *)
(* Only words that have been written are in the map, so a read of a word   *)
(* nobody wrote is an evaluation error instead of a silent value.  Words   *)
(* keep their values until they are written again, also inside payloads    *)
(* and across a reset of the provider's heap.                              *)
(* Request sizes are size_t values and are kept as four 16-bit limbs       *)
(* (least significant first) so that the arithmetic of mm_malloc wraps     *)
(* modulo 2^64 exactly as it does in C.  Heap words (sizes, pointers) are  *)
(* bounded by the heap size and are kept as plain integers.                *)
(***************************************************************************)
EXTENDS Integers, Sequences, FiniteSets, TLC

VARIABLES mem,            \* heap words: address -> word
          mem_brk,        \* memlib: first byte after the heap
          heap_start,     \* mm.c global
          free_list_head, \* mm.c global
          pc,             \* "fresh" | "ready" | "init_failed" | "crashed" | "hung" | "damaged"
          live,           \* live allocations: number of the mm_malloc call -> [p, n]
          last,           \* the last public call and what it returned
          nmalloc,        \* number of mm_malloc calls made so far
          before,         \* free bytes and heap top before the last mm_malloc
          calls,          \* insert_block and remove_block calls of the last operation
          queue,          \* queue.c: the queue and its list elements
          cache           \* csim.c: the simulated cache and its counters

vars == <<mem, mem_brk, heap_start, free_list_head, pc, live, last, nmalloc,
          before, calls, queue, cache>>

\* the state of the programs other than the allocator
others == <<queue, cache>>

(***************************************************************************)
(* Bounds of the model                                                     *)
(***************************************************************************)
\* the provider grants at most this many chunks of 4096 bytes
MaxChunks == 3
\* the client calls mm_malloc at most this many times
MaxMallocs == 4

(***************************************************************************)
(* Basic constants, mm.c 69-96                                             *)
(***************************************************************************)
NULL == 0
wsize == 8
dsize == 2 * wsize
min_block_size == 4 * wsize
chunksize == 4096

(***************************************************************************)
(* size_t arithmetic: 64-bit unsigned, four limbs of 16 bits               *)
(***************************************************************************)
Limb == 65536

ToW64(i) == <<i % Limb, i \div Limb, 0, 0>>

W64Zero == <<0, 0, 0, 0>>

\* the value of a word that is below 2^31
W64Fits(a) == a[3] = 0 /\ a[4] = 0 /\ a[2] < 32768
W64Val(a) == a[1] + Limb * a[2]

\* a + b, with the carry out of bit 63
W64AddC(a, b) ==
    LET s1 == a[1] + b[1]
        s2 == a[2] + b[2] + (s1 \div Limb)
        s3 == a[3] + b[3] + (s2 \div Limb)
        s4 == a[4] + b[4] + (s3 \div Limb)
    IN [sum |-> <<s1 % Limb, s2 % Limb, s3 % Limb, s4 % Limb>>,
        carry |-> s4 \div Limb]

\* a + b modulo 2^64
W64Add(a, b) == W64AddC(a, b).sum

\* a - b modulo 2^64
W64Sub(a, b) ==
    LET d1 == a[1] - b[1]
        d2 == a[2] - b[2] - (IF d1 < 0 THEN 1 ELSE 0)
        d3 == a[3] - b[3] - (IF d2 < 0 THEN 1 ELSE 0)
        d4 == a[4] - b[4] - (IF d3 < 0 THEN 1 ELSE 0)
    IN <<d1 % Limb, d2 % Limb, d3 % Limb, d4 % Limb>>

\* a / n for a small n (n <= 2^14)
W64Div(a, n) ==
    LET t4 == a[4]
        t3 == (t4 % n) * Limb + a[3]
        t2 == (t3 % n) * Limb + a[2]
        t1 == (t2 % n) * Limb + a[1]
    IN <<t1 \div n, t2 \div n, t3 \div n, t4 \div n>>

\* n * a modulo 2^64 for a small n (n <= 2^14)
W64Mul(n, a) ==
    LET p1 == n * a[1]
        p2 == n * a[2] + (p1 \div Limb)
        p3 == n * a[3] + (p2 \div Limb)
        p4 == n * a[4] + (p3 \div Limb)
    IN <<p1 % Limb, p2 % Limb, p3 % Limb, p4 % Limb>>

\* a <= b, unsigned
W64Leq(a, b) ==
    \/ a[4] < b[4]
    \/ a[4] = b[4] /\ a[3] < b[3]
    \/ a[4] = b[4] /\ a[3] = b[3] /\ a[2] < b[2]
    \/ a[4] = b[4] /\ a[3] = b[3] /\ a[2] = b[2] /\ a[1] <= b[1]

(***************************************************************************)
(* Helper routines, mm.c 544-694                                           *)
(***************************************************************************)
\* always the second argument
max_second(x, y) == y

max(x, y) == IF ~W64Leq(x, y) THEN x ELSE y

round_up(size, n) == W64Mul(n, W64Div(W64Add(size, ToW64(n - 1)), n))

\* size | alloc_mask when alloc
pack(size, alloc) == IF alloc /\ size % 2 = 0 THEN size + 1 ELSE size

\* word & ~0xF
extract_size(word) == word - (word % 16)

\* word & 0x1
extract_alloc(word) == word % 2 = 1

get_size(h, block) == extract_size(h.mem[block])

get_alloc(h, block) == extract_alloc(h.mem[block])

Store(h, addr, word) == [h EXCEPT !.mem = (addr :> word) @@ h.mem]

\* offsetof(block_t, payload) = 8; the links are the first two payload words
header_to_payload(block) == block + wsize

payload_to_header(bp) == bp - wsize

prev_link(block) == block + wsize

next_link(block) == block + 2 * wsize

header_to_footer(h, block) == header_to_payload(block) + get_size(h, block) - dsize

write_header(h, block, size, alloc) == Store(h, block, pack(size, alloc))

\* the footer always written as free
write_footer_free(h, block, size, alloc) ==
    Store(h, header_to_footer(h, block), pack(size, FALSE))

\* the footer position is computed from the size in the header
write_footer(h, block, size, alloc) ==
    Store(h, header_to_footer(h, block), pack(size, alloc))

find_next(h, block) == block + get_size(h, block)

find_prev_footer(block) == block - wsize

find_prev(h, block) == block - extract_size(h.mem[find_prev_footer(block)])

(***************************************************************************)
(* The heap provider (memlib).  It hands out the bytes from mem_heap_lo    *)
(* upwards and refuses a request that would pass its maximum size.         *)
(***************************************************************************)
mem_heap_lo == 65536

mem_max_addr == mem_heap_lo + 2 * wsize + MaxChunks * chunksize

\* mem_sbrk(incr): ok, the old top of the heap, and the heap after the call
mem_sbrk(h, incr) ==
    IF W64Fits(incr) /\ h.brk + W64Val(incr) <= mem_max_addr
    THEN [ok |-> TRUE, bp |-> h.brk, h |-> [h EXCEPT !.brk = h.brk + W64Val(incr)]]
    ELSE [ok |-> FALSE, bp |-> NULL, h |-> h]

(***************************************************************************)
(* Free list, mm.c 283-340                                                 *)
(***************************************************************************)
\* block is met by following the next links from ptr
RECURSIVE linked_from(_, _, _, _)
linked_from(h, ptr, block, seen) ==
    IF ptr = NULL \/ ptr \in seen \/ next_link(ptr) \notin DOMAIN h.mem THEN FALSE
    ELSE IF ptr = block THEN TRUE
    ELSE linked_from(h, h.mem[next_link(ptr)], block, seen \cup {ptr})

\* the record of a call of insert_block or remove_block on block: whether
\* block is linked in the free list when the call is made
Logged(h, op, block) ==
    [h EXCEPT !.log = Append(@, [op |-> op, block |-> block,
                                 linked |-> linked_from(h, h.flh, block, {})])]

\* the prev link of the former head is left as it was
insert_block_noprev(h0, free_block) ==
    LET h == Logged(h0, "insert", free_block)
    IN
    IF h.flh = NULL
    THEN LET h1 == [h EXCEPT !.flh = free_block]
             h2 == Store(h1, prev_link(free_block), NULL)
         IN Store(h2, next_link(free_block), NULL)
    ELSE LET h1 == Store(h, prev_link(free_block), NULL)
             h2 == Store(h1, next_link(free_block), h.flh)
         IN [h2 EXCEPT !.flh = free_block]

insert_block(h0, free_block) ==
    LET h == Logged(h0, "insert", free_block)
    IN
    IF h.flh = NULL
    THEN LET h1 == [h EXCEPT !.flh = free_block]
             h2 == Store(h1, prev_link(free_block), NULL)
         IN Store(h2, next_link(free_block), NULL)
    ELSE LET h1 == Store(h, prev_link(free_block), NULL)
             h2 == Store(h1, next_link(free_block), h.flh)
             h3 == Store(h2, prev_link(h.flh), free_block)
         IN [h3 EXCEPT !.flh = free_block]

\* the head is not moved when the first block of the list is removed
remove_block_keephead(h0, free_block) ==
    LET h == Logged(h0, "remove", free_block)
    IN
    LET prev_block == h.mem[prev_link(free_block)]
        next_block == h.mem[next_link(free_block)]
    IN IF h.flh = NULL THEN h
       ELSE IF prev_block = NULL /\ next_block = NULL
            THEN [h EXCEPT !.flh = NULL]
       ELSE IF prev_block = NULL /\ next_block # NULL
            THEN Store(h, prev_link(next_block), NULL)
       ELSE IF next_block = NULL /\ prev_block # NULL
            THEN Store(h, next_link(prev_block), NULL)
       ELSE Store(Store(h, next_link(prev_block), next_block),
                  prev_link(next_block), prev_block)

remove_block(h0, free_block) ==
    LET h == Logged(h0, "remove", free_block)
    IN
    LET prev_block == h.mem[prev_link(free_block)]
        next_block == h.mem[next_link(free_block)]
    IN IF h.flh = NULL THEN h
       ELSE IF prev_block = NULL /\ next_block = NULL
            THEN [h EXCEPT !.flh = NULL]
       ELSE IF prev_block = NULL /\ next_block # NULL
            THEN Store([h EXCEPT !.flh = next_block], prev_link(next_block), NULL)
       ELSE IF next_block = NULL /\ prev_block # NULL
            THEN Store(h, next_link(prev_block), NULL)
       ELSE Store(Store(h, next_link(prev_block), next_block),
                  prev_link(next_block), prev_block)

\* the scan goes on to the end of the list and keeps the last block that fits
RECURSIVE find_fit_last_from(_, _, _, _, _)
find_fit_last_from(h, ptr, asize, seen, found) ==
    IF ptr = NULL \/ ptr \in seen THEN found
    ELSE find_fit_last_from(h, h.mem[next_link(ptr)], asize, seen \cup {ptr},
                            IF W64Leq(asize, ToW64(get_size(h, ptr)))
                            THEN ptr ELSE found)

find_fit_last(h, asize) == find_fit_last_from(h, h.flh, asize, {}, NULL)

\* the for loop of find_fit never ends when the next links it follows form
\* a cycle without a fitting block
DIVERGES == -1

RECURSIVE find_fit_from(_, _, _, _)
find_fit_from(h, ptr, asize, seen) ==
    IF ptr = NULL THEN NULL
    ELSE IF W64Leq(asize, ToW64(get_size(h, ptr))) THEN ptr
    ELSE IF ptr \in seen THEN DIVERGES
    ELSE find_fit_from(h, h.mem[next_link(ptr)], asize, seen \cup {ptr})

find_fit(h, asize) == find_fit_from(h, h.flh, asize, {})

(***************************************************************************)
(* Coalescing, splitting and heap extension, mm.c 346-441                  *)
(***************************************************************************)
\* the neighbours are never merged
coalesce_block_nomerge(h, block) ==
    LET size == get_size(h, block)
        h1 == write_header(h, block, size, FALSE)
        h2 == write_footer(h1, block, size, FALSE)
    IN insert_block(h2, block)

\* the heap after the call; the block returned is coalesce_result
coalesce_block(h, block) ==
    LET size == get_size(h, block)
        prev_alloc == extract_alloc(h.mem[find_prev_footer(block)])
        next_alloc == get_alloc(h, find_next(h, block))
        prev_block == find_prev(h, block)
        next_block == find_next(h, block)
    IN IF prev_alloc /\ ~next_alloc
       THEN LET size1 == size + get_size(h, next_block)
                h1 == remove_block(h, next_block)
                h2 == write_header(h1, block, size1, FALSE)
                h3 == write_footer(h2, block, size1, FALSE)
            IN insert_block(h3, block)
       ELSE IF ~prev_alloc /\ next_alloc
       THEN LET size1 == size + get_size(h, prev_block)
                h1 == remove_block(h, prev_block)
                h2 == write_header(h1, prev_block, size1, FALSE)
                h3 == write_footer(h2, prev_block, size1, FALSE)
            IN insert_block(h3, prev_block)
       ELSE IF ~prev_alloc /\ ~next_alloc
       THEN LET size1 == size + get_size(h, prev_block) + get_size(h, next_block)
                h1 == remove_block(h, prev_block)
                h2 == remove_block(h1, next_block)
                h3 == write_header(h2, prev_block, size1, FALSE)
                h4 == write_footer(h3, prev_block, size1, FALSE)
            IN insert_block(h4, prev_block)
       ELSE LET h1 == write_header(h, block, size, FALSE)
                h2 == write_footer(h1, block, size, FALSE)
            IN insert_block(h2, block)

coalesce_result(h, block) ==
    IF extract_alloc(h.mem[find_prev_footer(block)]) THEN block
    ELSE find_prev(h, block)

\* the residue is marked allocated and is never put in the free list
split_block_leak(h, block, asize) ==
    LET block_size == get_size(h, block)
    IN IF W64Leq(ToW64(min_block_size), W64Sub(ToW64(block_size), asize))
       THEN LET h1 == write_header(h, block, W64Val(asize), TRUE)
                h2 == write_footer(h1, block, W64Val(asize), TRUE)
                block_next == find_next(h2, block)
                h3 == write_header(h2, block_next, block_size - W64Val(asize), TRUE)
            IN write_footer(h3, block_next, block_size - W64Val(asize), TRUE)
       ELSE h

\* a residue of 16 bytes is split off as well
split_block_small(h, block, asize) ==
    LET block_size == get_size(h, block)
    IN IF W64Leq(ToW64(dsize), W64Sub(ToW64(block_size), asize))
       THEN LET h1 == write_header(h, block, W64Val(asize), TRUE)
                h2 == write_footer(h1, block, W64Val(asize), TRUE)
                block_next == find_next(h2, block)
                h3 == write_header(h2, block_next, block_size - W64Val(asize), FALSE)
                h4 == write_footer(h3, block_next, block_size - W64Val(asize), FALSE)
            IN coalesce_block(h4, block_next)
       ELSE h

split_block(h, block, asize) ==
    LET block_size == get_size(h, block)
    IN IF W64Leq(ToW64(min_block_size), W64Sub(ToW64(block_size), asize))
       THEN LET h1 == write_header(h, block, W64Val(asize), TRUE)
                h2 == write_footer(h1, block, W64Val(asize), TRUE)
                block_next == find_next(h2, block)
                h3 == write_header(h2, block_next, block_size - W64Val(asize), FALSE)
                h4 == write_footer(h3, block_next, block_size - W64Val(asize), FALSE)
            IN coalesce_block(h4, block_next)
       ELSE h

\* the new epilogue header is written with size 16
extend_heap_epilogue16(h, size) ==
    LET size1 == round_up(size, dsize)
        s == mem_sbrk(h, size1)
    IN IF ~s.ok THEN [ok |-> FALSE, block |-> NULL, h |-> h]
       ELSE LET block_start == payload_to_header(s.bp)
                h1 == write_header(s.h, block_start, W64Val(size1), FALSE)
                h2 == write_footer(h1, block_start, W64Val(size1), FALSE)
                h3 == write_header(h2, find_next(h2, block_start), dsize, TRUE)
            IN [ok |-> TRUE,
                block |-> coalesce_result(h3, block_start),
                h |-> coalesce_block(h3, block_start)]

\* ok, the block returned, and the heap after the call
extend_heap(h, size) ==
    LET size1 == round_up(size, dsize)
        s == mem_sbrk(h, size1)
    IN IF ~s.ok THEN [ok |-> FALSE, block |-> NULL, h |-> h]
       ELSE LET block_start == payload_to_header(s.bp)
                h1 == write_header(s.h, block_start, W64Val(size1), FALSE)
                h2 == write_footer(h1, block_start, W64Val(size1), FALSE)
                h3 == write_header(h2, find_next(h2, block_start), 0, TRUE)
            IN [ok |-> TRUE,
                block |-> coalesce_result(h3, block_start),
                h |-> coalesce_block(h3, block_start)]

(***************************************************************************)
(* Public operations, mm.c 189-278                                         *)
(***************************************************************************)
\* the heap at the start of a public operation; log collects the calls of
\* insert_block and remove_block that the operation makes
Heap == [mem |-> mem, brk |-> mem_brk, flh |-> free_list_head, log |-> <<>>]

SetHeap(h) ==
    /\ mem' = h.mem
    /\ mem_brk' = h.brk
    /\ free_list_head' = h.flh
    /\ calls' = h.log

Call(op, size, asize, ret) == [op |-> op, size |-> size, asize |-> asize, ret |-> ret]

\* a third sentinel word
init_bytes_odd == 3 * wsize

\* the bytes of the two sentinel words, mm.c 192
init_bytes == 2 * wsize

mm_init ==
    /\ pc = "fresh"
    /\ live' = live
    /\ LET s == mem_sbrk(Heap, ToW64(init_bytes))
       IN IF ~s.ok
          THEN /\ pc' = "init_failed"
               /\ last' = Call("init", W64Zero, W64Zero, -1)
               /\ calls' = <<>>
               /\ UNCHANGED <<mem, mem_brk, free_list_head, heap_start>>
          ELSE LET start == s.bp
                   h1 == Store(s.h, start, pack(0, TRUE))
                   h2 == Store(h1, start + wsize, pack(0, TRUE))
                   e == extend_heap(h2, ToW64(chunksize))
               IN /\ heap_start' = start + wsize
                  /\ IF ~e.ok
                     THEN /\ pc' = "init_failed"
                          /\ last' = Call("init", W64Zero, W64Zero, -1)
                          /\ SetHeap(e.h)
                     ELSE LET h3 == [e.h EXCEPT !.flh = e.block]
                              h4 == Store(h3, prev_link(e.block), NULL)
                              h5 == Store(h4, next_link(e.block), NULL)
                          IN /\ pc' = "ready"
                             /\ last' = Call("init", W64Zero, W64Zero, 0)
                             /\ SetHeap(h5)

\* no room reserved for the header and the footer
adjusted_size_nooverhead(size) ==
    IF W64Leq(size, ToW64(dsize)) THEN ToW64(min_block_size)
    ELSE round_up(size, dsize)

\* the adjusted block size of a request, mm.c 233-239
adjusted_size(size) ==
    IF W64Leq(size, ToW64(dsize)) THEN ToW64(min_block_size)
    ELSE round_up(W64Add(size, ToW64(dsize)), dsize)

\* the block is left in the free list
place_noremove(h, block, asize) ==
    LET newSize == get_size(h, block)
        h2 == write_header(h, block, newSize, TRUE)
        h3 == write_footer(h2, block, newSize, TRUE)
    IN split_block(h3, block, asize)

\* mm.c 249-258: take block out of the free list, mark it allocated, split it
place(h, block, asize) ==
    LET newSize == get_size(h, block)
        h1 == remove_block(h, block)
        h2 == write_header(h1, block, newSize, TRUE)
        h3 == write_footer(h2, block, newSize, TRUE)
    IN split_block(h3, block, asize)

(***************************************************************************)
(* When the heap cannot be extended, find_fit returns NULL again and line  *)
(* 249 reads the header of the NULL block.  Address 0 is not mapped: the   *)
(* read traps and the process ends inside mm_malloc (pc = "crashed").      *)
(***************************************************************************)
mm_malloc(size) ==
    /\ pc = "ready"
    /\ heap_start' = heap_start
    /\ IF size = W64Zero
       THEN /\ last' = Call("malloc", size, W64Zero, NULL)
            /\ calls' = <<>>
            /\ UNCHANGED <<mem, mem_brk, free_list_head, pc, live>>
       ELSE LET asize == adjusted_size(size)
                fit == find_fit(Heap, asize)
                e == IF fit # NULL THEN [ok |-> TRUE, block |-> NULL, h |-> Heap]
                     ELSE extend_heap(Heap, max(ToW64(chunksize), asize))
                block == IF fit # NULL THEN fit ELSE find_fit(e.h, asize)
            IN IF fit = DIVERGES
               THEN /\ pc' = "hung"
                    /\ last' = Call("malloc", size, asize, NULL)
                    /\ calls' = <<>>
                    /\ UNCHANGED <<mem, mem_brk, free_list_head, live>>
               ELSE IF block = NULL
               THEN /\ pc' = "crashed"
                    /\ last' = Call("malloc", size, asize, NULL)
                    /\ SetHeap(e.h)
                    /\ live' = live
               ELSE /\ pc' = pc
                    /\ last' = Call("malloc", size, asize, header_to_payload(block))
                    /\ SetHeap(place(e.h, block, asize))
                    /\ live' = ((nmalloc + 1) :> [p |-> header_to_payload(block), n |-> size]) @@ live

\* a free block that ends at the epilogue is given back to the provider
trim(h) ==
    IF h.flh # NULL /\ find_next(h, h.flh) = h.brk - wsize
    THEN LET h1 == remove_block(h, h.flh)
             h2 == write_header(h1, h.flh, 0, TRUE)
         IN [h2 EXCEPT !.brk = h.flh + wsize]
    ELSE h

mm_free_trim(bp) ==
    /\ pc = "ready"
    /\ UNCHANGED <<heap_start, pc>>
    /\ last' = Call("free", W64Zero, W64Zero, bp)
    /\ IF bp = NULL
       THEN calls' = <<>> /\ UNCHANGED <<mem, mem_brk, free_list_head>>
       ELSE LET block == payload_to_header(bp)
                size == get_size(Heap, block)
                h1 == write_header(Heap, block, size, FALSE)
                h2 == write_footer(h1, block, size, FALSE)
            IN SetHeap(trim(coalesce_block(h2, block)))

mm_free(bp) ==
    /\ pc = "ready"
    /\ UNCHANGED <<heap_start, pc>>
    /\ last' = Call("free", W64Zero, W64Zero, bp)
    /\ IF bp = NULL
       THEN calls' = <<>> /\ UNCHANGED <<mem, mem_brk, free_list_head>>
       ELSE LET block == payload_to_header(bp)
                size == get_size(Heap, block)
                h1 == write_header(Heap, block, size, FALSE)
                h2 == write_footer(h1, block, size, FALSE)
            IN SetHeap(coalesce_block(h2, block))

\* memlib's mem_reset_brk: the heap is empty again; the words of the old
\* heap and the globals of mm.c keep their values
mem_reset_brk ==
    /\ pc \in {"ready", "crashed", "init_failed", "hung"}
    /\ pc' = "fresh"
    /\ mem_brk' = mem_heap_lo
    /\ live' = <<>>
    /\ last' = Call("reset", W64Zero, W64Zero, 0)
    /\ calls' = <<>>
    /\ UNCHANGED <<mem, heap_start, free_list_head>>

(***************************************************************************)
(***************************************************************************)
(* The consistency checker, mm.c 486-534                                   *)
(***************************************************************************)
\* sizeof(block_t): the header word and the two link words
block_t_size == 3 * wsize

\* mm.c 449-452, with mem_heap_hi() the last byte of the heap
in_heap(h, p) == p <= h.brk - 1 /\ p >= mem_heap_lo

\* mm.c 524-530: 0 when a node of the free list has the alloc bit set
RECURSIVE check_list(_, _, _)
check_list(h, curr, seen) ==
    IF curr = NULL THEN 1
    ELSE IF get_alloc(h, curr) THEN 0
    ELSE IF curr \in seen THEN DIVERGES
    ELSE check_list(h, h.mem[next_link(curr)], seen \cup {curr})

\* mm.c 501-521: the loop goes on while next + 1, a block_t pointer, is
\* below the last byte of the heap
RECURSIVE check_blocks(_, _)
check_blocks(h, curr) ==
    LET next == find_next(h, curr)
    IN IF next + block_t_size < h.brk - 1
       THEN IF h.mem[curr] # h.mem[find_prev_footer(next)] THEN 0
            ELSE IF ~in_heap(h, header_to_payload(curr)) THEN 0
            ELSE IF next = curr THEN DIVERGES
            ELSE check_blocks(h, next)
       ELSE check_list(h, h.flh, {})

\* 1 for true, 0 for false
check_heap(h) ==
    IF heap_start = NULL THEN 0
    ELSE check_blocks(h, heap_start)

(***************************************************************************)
(* The queue of "Lab 3 - Queue/queue.c": a singly-linked list of strings   *)
(* with a head pointer, a tail pointer and a size.                         *)
(*                                                                         *)
(* List elements are numbered in the order of their allocation; elems maps *)
(* the elements that are allocated to their value and next fields, so a    *)
(* pointer to a freed element is a number outside DOMAIN elems.  Strings   *)
(* are sequences of character codes without the terminating 0.             *)
(***************************************************************************)
\* at most this many list elements are allocated in a run
MaxElems == 4

Strings == {<<97>>, <<98, 99>>}

\* the bufsize arguments of q_remove_head
BufSizes == {0, 1, 2, 4}

\* what a read behind the end of an allocation can find: any byte (the
\* bytes there belong to the C library or to another allocation)
StrayBytes == 0..255

\* the last call: what it returned (true is 1, false is 0), its sp argument
\* and the bytes it left in the buffer at sp
QCall(op, ret, sp, buf) == [op |-> op, ret |-> ret, sp |-> sp, buf |-> buf]

QueueInit ==
    [pc |-> "none", q |-> NULL, head |-> NULL, tail |-> NULL, size |-> 0,
     elems |-> <<>>, nalloc |-> 0, last |-> QCall("none", 0, NULL, <<>>)]

\* queue.c 24-36; ok: malloc returned a queue
q_new(qs, ok) ==
    IF ~ok THEN [qs EXCEPT !.pc = "live", !.q = NULL,
                           !.last = QCall("q_new", NULL, NULL, <<>>)]
    ELSE [qs EXCEPT !.pc = "live", !.q = 1, !.head = NULL, !.tail = NULL,
                    !.size = 0, !.last = QCall("q_new", 1, NULL, <<>>)]

\* queue.c 39-59: every element reachable from head, and the queue, are freed
RECURSIVE free_from(_, _)
free_from(elems, curr) ==
    IF curr = NULL \/ curr \notin DOMAIN elems THEN elems
    ELSE free_from([e \in DOMAIN elems \ {curr} |-> elems[e]], elems[curr].next)

q_free(qs) ==
    IF qs.q = NULL THEN [qs EXCEPT !.last = QCall("q_free", 0, NULL, <<>>)]
    ELSE [qs EXCEPT !.pc = "freed", !.elems = free_from(qs.elems, qs.head),
                    !.last = QCall("q_free", 0, NULL, <<>>)]

\* queue.c 68-102; ok1, ok2: the two mallocs succeeded
q_insert_head(qs, s, ok1, ok2) ==
    IF qs.q = NULL \/ ~ok1 \/ ~ok2
    THEN [qs EXCEPT !.last = QCall("q_insert_head", 0, NULL, <<>>)]
    ELSE LET newh == qs.nalloc + 1
         IN [qs EXCEPT !.elems = (newh :> [value |-> s, next |-> qs.head]) @@ qs.elems,
                       !.nalloc = newh,
                       !.head = newh,
                       !.tail = IF qs.size = 0 THEN newh ELSE qs.tail,
                       !.size = qs.size + 1,
                       !.last = QCall("q_insert_head", 1, NULL, <<>>)]

\* queue.c 112-152; with size > 0 line 145 writes through q->tail, which
\* faults when tail is NULL
q_insert_tail(qs, s, ok1, ok2) ==
    IF qs.q = NULL \/ ~ok1 \/ ~ok2
    THEN [qs EXCEPT !.last = QCall("q_insert_tail", 0, NULL, <<>>)]
    ELSE LET newtail == qs.nalloc + 1
             el == (newtail :> [value |-> s, next |-> NULL]) @@ qs.elems
         IN IF qs.size = 0
            THEN [qs EXCEPT !.elems = el, !.nalloc = newtail,
                            !.head = newtail, !.tail = newtail,
                            !.size = qs.size + 1,
                            !.last = QCall("q_insert_tail", 1, NULL, <<>>)]
            ELSE IF qs.tail \notin DOMAIN qs.elems
            THEN [qs EXCEPT !.pc = "crashed", !.elems = el, !.nalloc = newtail,
                            !.last = QCall("q_insert_tail", 0, NULL, <<>>)]
            ELSE [qs EXCEPT !.elems = [el EXCEPT ![qs.tail].next = newtail],
                            !.nalloc = newtail,
                            !.tail = newtail,
                            !.size = qs.size + 1,
                            !.last = QCall("q_insert_tail", 1, NULL, <<>>)]

\* byte i of the memory at a string: its characters, the terminating 0,
\* then the bytes behind the allocation of strlen + 1 bytes; stray is the
\* sequence of the bytes that are mapped there
StringByte(s, i, stray) ==
    IF i <= Len(s) THEN s[i]
    ELSE IF i = Len(s) + 1 THEN 0
    ELSE stray[i - (Len(s) + 1)]

\* queue.c 170: bufsize - 1 in size_t, the number of bytes the loop copies;
\* for bufsize 0 it wraps to 2^64 - 1
copy_count(bufsize) == W64Sub(ToW64(bufsize), ToW64(1))

\* the loop has left the mapped memory and the process has ended
SIGSEGV == <<-1>>

\* queue.c 170-179: bufsize - 1 bytes are copied, whatever the length of the
\* string, and a 0 is written after them; the reads that pass the last
\* mapped byte behind the string end in a fault
copy_out(s, bufsize, stray) ==
    IF ~W64Fits(copy_count(bufsize)) THEN SIGSEGV
    ELSE LET n == W64Val(copy_count(bufsize))
         IN IF n - (Len(s) + 1) > Len(stray) THEN SIGSEGV
            ELSE [i \in 1..(n + 1) |->
                     IF i <= n THEN StringByte(s, i, stray) ELSE 0]

\* queue.c 162-194; sp is NULL or a buffer of bufsize bytes, stray the bytes
\* mapped behind the string of the head
q_remove_head(qs, sp, bufsize, stray) ==
    IF qs.q = NULL \/ qs.size = 0 \/ sp = NULL
    THEN [qs EXCEPT !.last = QCall("q_remove_head", 0, sp, <<>>)]
    ELSE IF copy_out(qs.elems[qs.head].value, bufsize, stray) = SIGSEGV
    THEN [qs EXCEPT !.pc = "crashed",
                    !.last = QCall("q_remove_head", 0, sp, <<>>)]
    ELSE LET currToRemove == qs.head
             size1 == qs.size - 1
         IN [qs EXCEPT !.head = qs.elems[currToRemove].next,
                       !.size = size1,
                       !.tail = IF size1 = 1 THEN NULL ELSE qs.tail,
                       !.elems = [e \in DOMAIN qs.elems \ {currToRemove} |-> qs.elems[e]],
                       !.last = QCall("q_remove_head", 1, sp,
                                      copy_out(qs.elems[currToRemove].value,
                                               bufsize, stray))]

\* queue.c 200-208
q_size(qs) ==
    [qs EXCEPT !.last = QCall("q_size", IF qs.q = NULL THEN 0 ELSE qs.size,
                              NULL, <<>>)]

\* queue.c 229-238: the loop of q_reverse and the two assignments after it
RECURSIVE reverse_from(_, _, _, _)
reverse_from(elems, previousElement, curr, nextElement) ==
    IF nextElement = NULL
    THEN [elems |-> [elems EXCEPT ![curr].next = previousElement], head |-> curr]
    ELSE reverse_from([elems EXCEPT ![curr].next = previousElement],
                      curr, nextElement, elems[nextElement].next)

\* queue.c 217-239
q_reverse(qs) ==
    IF qs.q = NULL \/ qs.size = 0 \/ qs.size = 1
    THEN [qs EXCEPT !.last = QCall("q_reverse", 0, NULL, <<>>)]
    ELSE LET r == reverse_from(qs.elems, NULL, qs.head, qs.elems[qs.head].next)
         IN [qs EXCEPT !.tail = qs.head,
                       !.elems = r.elems,
                       !.head = r.head,
                       !.last = QCall("q_reverse", 0, NULL, <<>>)]

(***************************************************************************)
(* The cache simulator csim.c ("unnamed/part_000"): S sets of E lines;     *)
(* each line has a tag, a counter lru_count and a valid flag.  The lines   *)
(* of a set are numbered 1..E here (0..E-1 in the source).                 *)
(***************************************************************************)
\* the trace has at most this many lines
MaxTrace == 3

\* the command line: -s 1 -E 2 -b 1
csim_s == 1
csim_E == 2
csim_b == 1
\* csim.c 315-316
csim_S == 2 ^ csim_s

\* the addresses of the trace: tags 0, 1, 2 of set 0 and tag 0 of set 1, and
\* a second byte of the first block
Addresses == {0, 1, 4, 8, 2}

\* the first character of a trace line
TraceOps == {"I", "L", "S", "M"}

INT_MAX == 2147483647
INT_MIN == (-2147483647) - 1

\* x + 1 in an int: the addition wraps
Inc32(x) == IF x = INT_MAX THEN INT_MIN ELSE x + 1

\* csim.c 132 declares MRU without an initial value and line 135 reads it:
\* the value read is whatever the register or stack slot holds, any int
Indeterminate == INT_MIN..INT_MAX

\* the values of Indeterminate that the checked runs draw: below every
\* counter, among the counters of a short trace, stack words far above them
\* (seen at -O0 and at -O3), and the largest int
MRUSamples == {-1, 1, 3, 761967792, 1431671520, INT_MAX}

EmptyLine == [tag |-> 0, lru_count |-> 0, valid |-> 0]

\* lines: the cache; stamp: for each line the number of the access that
\* used it last (0: never), kept for the properties
CacheInit ==
    [pc |-> "start", lines |-> <<>>, stamp |-> <<>>,
     hit_count |-> 0, miss_count |-> 0, eviction_count |-> 0,
     naccess |-> 0, nlines |-> 0]

\* csim.c 83-96
initCache(c) ==
    [c EXCEPT !.pc = "replay",
              !.lines = [i \in 0..(csim_S - 1) |-> [j \in 1..csim_E |-> EmptyLine]],
              !.stamp = [i \in 0..(csim_S - 1) |-> [j \in 1..csim_E |-> 0]]]

\* the smallest of x and the counters of the lines
RECURSIVE MinCount(_, _, _)
MinCount(x, lines, i) ==
    IF i > csim_E THEN x
    ELSE MinCount(IF x > lines[i].lru_count THEN lines[i].lru_count ELSE x,
                  lines, i + 1)

\* the largest of x and the counters of the lines
RECURSIVE MaxCount(_, _, _)
MaxCount(x, lines, i) ==
    IF i > csim_E THEN x
    ELSE MaxCount(IF x < lines[i].lru_count THEN lines[i].lru_count ELSE x,
                  lines, i + 1)

\* csim.c 143-156; st: the lines of the set, MRU, LRU, hit and hit_count
RECURSIVE hit_loop(_, _, _)
hit_loop(st, tag, i) ==
    IF i > csim_E THEN st
    ELSE IF st.lines[i].tag = tag /\ st.lines[i].valid # 0
    THEN LET lines1 == [st.lines EXCEPT ![i].lru_count = Inc32(st.MRU)]
         IN hit_loop([st EXCEPT !.hit_count = st.hit_count + 1,
                                !.hit = 1,
                                !.lines = lines1,
                                !.MRU = Inc32(st.MRU),
                                !.LRU = MinCount(Inc32(st.LRU), lines1, 1)],
                     tag, i + 1)
    ELSE hit_loop(st, tag, i + 1)

\* csim.c 161-177: the first line that is not valid takes the tag
RECURSIVE fill_loop(_, _, _)
fill_loop(st, tag, i) ==
    IF i > csim_E THEN st
    ELSE IF st.lines[i].valid = 0 /\ st.check = 0
    THEN LET lines1 == [st.lines EXCEPT ![i] = [tag |-> tag,
                                                 lru_count |-> Inc32(st.MRU),
                                                 valid |-> 49]]
         IN fill_loop([st EXCEPT !.lines = lines1,
                                 !.MRU = Inc32(st.MRU),
                                 !.LRU = MinCount(Inc32(st.LRU), lines1, 1),
                                 !.hit = 1,
                                 !.check = 1],
                      tag, i + 1)
    ELSE fill_loop(st, tag, i + 1)

\* csim.c 179-192: the first line whose counter equals LRU takes the tag
RECURSIVE evict_loop(_, _, _)
evict_loop(st, tag, i) ==
    IF i > csim_E THEN st
    ELSE IF st.lines[i].lru_count = st.LRU /\ st.check = 0
    THEN evict_loop([st EXCEPT !.lines[i].tag = tag,
                               !.lines[i].lru_count = Inc32(st.MRU),
                               !.MRU = Inc32(st.MRU),
                               !.LRU = Inc32(st.LRU),
                               !.eviction_count = st.eviction_count + 1,
                               !.hit = 1,
                               !.check = 1],
                    tag, i + 1)
    ELSE evict_loop(st, tag, i + 1)

\* csim.c 127-128
AddrTag(addr) == addr \div (2 ^ (csim_b + csim_s))

AddrSet(addr) == (addr \div (2 ^ csim_b)) % csim_S

\* csim.c 125-194; mru0 is the value that line 135 finds in MRU
accessData(c, addr, mru0) ==
    LET tag == AddrTag(addr)
        set == AddrSet(addr)
        st0 == [lines |-> c.lines[set],
                MRU |-> MaxCount(mru0, c.lines[set], 1),
                LRU |-> MinCount(c.lines[set][1].lru_count, c.lines[set], 1),
                hit |-> 0, check |-> 0,
                hit_count |-> c.hit_count,
                eviction_count |-> c.eviction_count]
        st1 == hit_loop(st0, tag, 1)
        st2 == IF st1.hit # 0 THEN st1 ELSE fill_loop(st1, tag, 1)
        st3 == IF st2.hit # 0 THEN st2
               ELSE evict_loop([st2 EXCEPT !.check = 0], tag, 1)
        used == {j \in 1..csim_E : st3.lines[j].tag = tag /\ st3.lines[j].valid # 0}
    IN [c EXCEPT !.lines[set] = st3.lines,
                 !.hit_count = st3.hit_count,
                 !.miss_count = IF st1.hit # 0 THEN c.miss_count ELSE c.miss_count + 1,
                 !.eviction_count = st3.eviction_count,
                 !.naccess = c.naccess + 1,
                 !.stamp[set] = [j \in 1..csim_E |->
                                    IF j \in used THEN c.naccess + 1
                                    ELSE c.stamp[set][j]]]

\* csim.c 223-234: one line of the trace
replayLine(c, op, addr, mru1, mru2) ==
    LET c0 == [c EXCEPT !.nlines = c.nlines + 1]
    IN IF op \in {"S", "L"} THEN accessData(c0, addr, mru1)
       ELSE IF op = "M" THEN accessData(accessData(c0, addr, mru1), addr, mru2)
       ELSE c0

(***************************************************************************)
(* Specifications                                                          *)
(***************************************************************************)
\* the bytes in free blocks met by walking the heap from block
RECURSIVE FreeBytesFrom(_, _)
FreeBytesFrom(h, block) ==
    IF block \notin DOMAIN h.mem \/ block >= h.brk \/ get_size(h, block) <= 0
    THEN 0
    ELSE (IF get_alloc(h, block) THEN 0 ELSE get_size(h, block))
         + FreeBytesFrom(h, find_next(h, block))

FreeBytes == FreeBytesFrom(Heap, heap_start)

NoSnapshot == [op |-> "none", free |-> 0, brk |-> 0]

Snapshot == [op |-> "malloc", free |-> FreeBytes, brk |-> mem_brk]

\* payload sizes requested by the client
RequestSizes == {16, 32, 2000, 4080}

Requests == {ToW64(n) : n \in RequestSizes}

Init ==
    /\ mem = <<>>
    /\ mem_brk = mem_heap_lo
    /\ heap_start = NULL
    /\ free_list_head = NULL
    /\ pc = "fresh"
    /\ live = <<>>
    /\ last = Call("none", W64Zero, W64Zero, 0)
    /\ nmalloc = 0
    /\ before = NoSnapshot
    /\ calls = <<>>
    /\ queue = QueueInit
    /\ cache = CacheInit

Initialise ==
    /\ mm_init
    /\ nmalloc' = nmalloc
    /\ before' = NoSnapshot
    /\ UNCHANGED others

Allocate ==
    /\ nmalloc < MaxMallocs
    /\ \E size \in Requests : mm_malloc(size)
    /\ nmalloc' = nmalloc + 1
    /\ before' = Snapshot
    /\ UNCHANGED others

\* the client releases a live payload
\* before keeps the snapshot when the payload released is the one that the
\* call just before, an mm_malloc, returned
Release ==
    /\ \E i \in DOMAIN live :
           /\ mm_free(live[i].p)
           /\ live' = [j \in DOMAIN live \ {i} |-> live[j]]
           /\ before' = IF last.op = "malloc" /\ last.ret = live[i].p
                         THEN [before EXCEPT !.op = "roundtrip"]
                         ELSE NoSnapshot
    /\ nmalloc' = nmalloc
    /\ UNCHANGED others

Next == Initialise \/ Allocate \/ Release

Spec == Init /\ [][Next]_vars

(***************************************************************************)
(* Any argument: a request of any size_t value, a release of NULL         *)
(***************************************************************************)
\* 2^64 - k for 0 < k <= 65536
W64Top(k) == <<Limb - k, Limb - 1, Limb - 1, Limb - 1>>

HugeRequests == {W64Top(1), W64Top(15), W64Top(16), W64Top(17), W64Top(31),
                 W64Top(32), W64Top(4096), <<0, 0, 0, 32768>>}

\* the last call placed a request in a block smaller than the request
PlacedTooSmall ==
    /\ last.op = "malloc"
    /\ last.ret # NULL
    /\ ~W64Leq(last.size, last.asize)

\* the runs are followed up to the first placement of that kind: the heap
\* it leaves is not one the operations are written for
AllocateAny ==
    /\ ~PlacedTooSmall
    /\ nmalloc < MaxMallocs
    /\ \E size \in Requests \cup HugeRequests \cup {W64Zero} : mm_malloc(size)
    /\ nmalloc' = nmalloc + 1
    /\ before' = Snapshot
    /\ UNCHANGED others

\* the client releases a live payload, or NULL
ReleaseAny ==
    /\ ~PlacedTooSmall
    /\ \/ Release
       \/ /\ mm_free(NULL)
          /\ before' = NoSnapshot
          /\ UNCHANGED <<live, nmalloc, queue, cache>>

NextAny == Initialise \/ AllocateAny \/ ReleaseAny

SpecAny == Init /\ [][NextAny]_vars

(***************************************************************************)
(* Runs in which the driver resets the provider's heap and initialises     *)
(* the allocator again                                                     *)
(***************************************************************************)
Reset ==
    /\ mem_reset_brk
    /\ nmalloc' = nmalloc
    /\ before' = NoSnapshot
    /\ UNCHANGED others

NextReset == Initialise \/ Allocate \/ Release \/ Reset

SpecReset == Init /\ [][NextReset]_vars

(***************************************************************************)
(* The runs of the concrete scenarios of the specification                 *)
(***************************************************************************)
ScenarioSizes == {16, 24, 4048, 4080}

AllocateScenario ==
    /\ nmalloc < MaxMallocs
    /\ \E n \in ScenarioSizes : mm_malloc(ToW64(n))
    /\ nmalloc' = nmalloc + 1
    /\ before' = Snapshot
    /\ UNCHANGED others

NextScenario == Initialise \/ AllocateScenario \/ Release

SpecScenario == Init /\ [][NextScenario]_vars

(***************************************************************************)
(* Runs with a request whose block is larger than a chunk                  *)
(***************************************************************************)
LargeSizes == {16, 2000, 5000}

AllocateLarge ==
    /\ nmalloc < MaxMallocs
    /\ \E n \in LargeSizes : mm_malloc(ToW64(n))
    /\ nmalloc' = nmalloc + 1
    /\ before' = Snapshot
    /\ UNCHANGED others

NextLarge == Initialise \/ AllocateLarge \/ Release

SpecLarge == Init /\ [][NextLarge]_vars

(***************************************************************************)
(* Runs of the queue                                                       *)
(***************************************************************************)
\* the state of the allocator
allocator == <<mem, mem_brk, heap_start, free_list_head, pc, live, last,
               nmalloc, before, calls>>

QNew ==
    /\ queue.pc = "none"
    /\ \E ok \in BOOLEAN : queue' = q_new(queue, ok)
    /\ UNCHANGED <<allocator, cache>>

QFree ==
    /\ queue.pc = "live"
    /\ queue' = q_free(queue)
    /\ UNCHANGED <<allocator, cache>>

QInsertHead ==
    /\ queue.pc = "live"
    /\ queue.nalloc < MaxElems
    /\ \E s \in Strings, ok1, ok2 \in BOOLEAN :
           queue' = q_insert_head(queue, s, ok1, ok2)
    /\ UNCHANGED <<allocator, cache>>

QInsertTail ==
    /\ queue.pc = "live"
    /\ queue.nalloc < MaxElems
    /\ \E s \in Strings, ok1, ok2 \in BOOLEAN :
           queue' = q_insert_tail(queue, s, ok1, ok2)
    /\ UNCHANGED <<allocator, cache>>

\* the copy loop of this call reads bytes behind the string of the head:
\* bufsize - 1, in size_t, is more than the strlen + 1 bytes of the string
ReadsBehind(qs, sp, bufsize) ==
    /\ qs.q # NULL /\ qs.size > 0 /\ sp # NULL
    /\ ~W64Leq(copy_count(bufsize), ToW64(Len(qs.elems[qs.head].value) + 1))

\* what the memory behind the string of the head can hold, as far as this
\* call reads it: the few bytes that the sizes of BufSizes reach are mapped
\* (the malloc chunk of the string and the heap behind it), and a count of
\* 2^64 - 1 passes the end of the mapped memory whatever the bytes are
StrayChoices(qs, sp, bufsize) ==
    IF ReadsBehind(qs, sp, bufsize) /\ W64Fits(copy_count(bufsize))
    THEN [1..(W64Val(copy_count(bufsize))
                 - (Len(qs.elems[qs.head].value) + 1)) -> StrayBytes]
    ELSE {<<>>}

QRemoveHead ==
    /\ queue.pc = "live"
    /\ \E sp \in {NULL, 1}, bufsize \in BufSizes :
           \E stray \in StrayChoices(queue, sp, bufsize) :
               queue' = q_remove_head(queue, sp, bufsize, stray)
    /\ UNCHANGED <<allocator, cache>>

QSize ==
    /\ queue.pc = "live"
    /\ queue' = q_size(queue)
    /\ UNCHANGED <<allocator, cache>>

QReverse ==
    /\ queue.pc = "live"
    /\ queue' = q_reverse(queue)
    /\ UNCHANGED <<allocator, cache>>

NextQueue ==
    QNew \/ QFree \/ QInsertHead \/ QInsertTail \/ QRemoveHead \/ QSize \/ QReverse

SpecQueue == Init /\ [][NextQueue]_vars

(***************************************************************************)
(* Runs of the cache simulator                                             *)
(***************************************************************************)
InitCache ==
    /\ cache.pc = "start"
    /\ cache' = initCache(cache)
    /\ UNCHANGED <<allocator, queue>>

\* a line of the trace; each call of accessData finds any int in MRU
ReplayLine ==
    /\ cache.pc = "replay"
    /\ cache.nlines < MaxTrace
    /\ \E op \in TraceOps, addr \in Addresses, mru1 \in Indeterminate :
           \E mru2 \in (IF op = "M" THEN Indeterminate ELSE {mru1}) :
               cache' = replayLine(cache, op, addr, mru1, mru2)
    /\ UNCHANGED <<allocator, queue>>

\* the same with the values of MRU drawn from MRUSamples: the 2^32 values of
\* an int are more than a run of the model checker can enumerate
ReplayLineSampled ==
    /\ cache.pc = "replay"
    /\ cache.nlines < MaxTrace
    /\ \E op \in TraceOps, addr \in Addresses, mru1 \in MRUSamples :
           \E mru2 \in (IF op = "M" THEN MRUSamples ELSE {mru1}) :
               cache' = replayLine(cache, op, addr, mru1, mru2)
    /\ UNCHANGED <<allocator, queue>>

\* csim.c 236, 328-331: end of the trace, freeCache and printSummary
Summary ==
    /\ cache.pc = "replay"
    /\ cache' = [cache EXCEPT !.pc = "done", !.lines = <<>>]
    /\ UNCHANGED <<allocator, queue>>

\* every run of the program on the traces of the model
NextCacheAny == InitCache \/ ReplayLine \/ Summary

SpecCacheAny == Init /\ [][NextCacheAny]_vars

\* the runs that are checked
NextCache == InitCache \/ ReplayLineSampled \/ Summary

SpecCache == Init /\ [][NextCache]_vars

(***************************************************************************)
(* Views of the heap used by the properties                                *)
(***************************************************************************)
\* the blocks met by walking the heap from heap_start to the epilogue
RECURSIVE BlocksFrom(_, _)
BlocksFrom(h, block) ==
    IF block \notin DOMAIN h.mem \/ block >= h.brk \/ get_size(h, block) <= 0
    THEN {}
    ELSE {block} \cup BlocksFrom(h, find_next(h, block))

Blocks == BlocksFrom(Heap, heap_start)

FreeBlocks == {b \in Blocks : ~get_alloc(Heap, b)}

\* the address at which the walk from heap_start stops
RECURSIVE WalkEnd(_, _)
WalkEnd(h, block) ==
    IF block \notin DOMAIN h.mem \/ block >= h.brk \/ get_size(h, block) <= 0
    THEN block
    ELSE WalkEnd(h, find_next(h, block))

\* the nodes met by following the next links from the head; a node met a
\* second time ends the sequence and is listed twice
RECURSIVE ListFrom(_, _, _)
ListFrom(h, ptr, seen) ==
    IF ptr = NULL THEN <<>>
    ELSE IF ptr \in seen \/ next_link(ptr) \notin DOMAIN h.mem THEN <<ptr>>
    ELSE <<ptr>> \o ListFrom(h, h.mem[next_link(ptr)], seen \cup {ptr})

FreeList == ListFrom(Heap, free_list_head, {})

\* between public calls of an initialised allocator
Settled == pc \in {"ready", "crashed"}

HeapExtended == mem_brk > mem_heap_lo + 2 * wsize + chunksize

\* the block that the last release freed, and its end before coalescing
Freed == payload_to_header(last.ret)

FreedEnd == Freed + extract_size(mem[Freed])

LastReleased == Settled /\ last.op = "free" /\ last.ret # NULL

\* byte ranges [a1, e1) and [a2, e2) share a byte
Overlap(a1, e1, a2, e2) == a1 < e2 /\ a2 < e1

PayloadEnd(i) == live[i].p + W64Val(live[i].n)

LiveBlock(i) == payload_to_header(live[i].p)

(***************************************************************************)
(* Runs in which the client damages a boundary tag with a write outside    *)
(* its payloads and the consistency checker is called                      *)
(***************************************************************************)
\* the tag with the alloc bit inverted
flipped(word) == IF word % 2 = 1 THEN word - 1 ELSE word + 1

DamageKinds == {"header", "footer", "tags"}

\* the heap after the stray write, or writes, on the tags of block
damaged(h, block, kind) ==
    LET footer == header_to_footer(h, block)
        h1 == IF kind \in {"header", "tags"}
              THEN Store(h, block, flipped(h.mem[block])) ELSE h
    IN IF kind \in {"footer", "tags"}
       THEN Store(h1, footer, flipped(h.mem[footer])) ELSE h1

Damage ==
    /\ pc = "ready"
    /\ \E block \in Blocks, kind \in DamageKinds :
           /\ mem' = damaged(Heap, block, kind).mem
           /\ last' = Call("damage", W64Zero, W64Zero, block)
    /\ pc' = "damaged"
    /\ before' = NoSnapshot
    /\ calls' = <<>>
    /\ UNCHANGED <<mem_brk, heap_start, free_list_head, live, nmalloc>>
    /\ UNCHANGED others

CheckHeap ==
    /\ pc \in {"ready", "damaged"}
    /\ last' = Call("check", W64Zero, W64Zero, check_heap(Heap))
    /\ pc' = IF check_heap(Heap) = DIVERGES THEN "hung" ELSE pc
    /\ before' = NoSnapshot
    /\ calls' = <<>>
    /\ UNCHANGED <<mem, mem_brk, heap_start, free_list_head, live, nmalloc>>
    /\ UNCHANGED others

CheckSizes == {16, 2000}

AllocateCheck ==
    /\ nmalloc < MaxMallocs
    /\ \E n \in CheckSizes : mm_malloc(ToW64(n))
    /\ nmalloc' = nmalloc + 1
    /\ before' = Snapshot
    /\ UNCHANGED others

NextCheck == Initialise \/ AllocateCheck \/ Release \/ Damage \/ CheckHeap

SpecCheck == Init /\ [][NextCheck]_vars

NoFitAndRefused(size) ==
    /\ pc = "ready"
    /\ size # W64Zero
    /\ find_fit(Heap, adjusted_size(size)) = NULL
    /\ ~extend_heap(Heap, max(ToW64(chunksize), adjusted_size(size))).ok

C5_RefusalReturnsNull ==
    [][\A size \in Requests :
          (NoFitAndRefused(size) /\ nmalloc' = nmalloc + 1 /\ last'.size = size)
              => /\ pc' = "ready"
                 /\ last'.ret = NULL
                 /\ UNCHANGED <<mem, mem_brk, free_list_head>>]_vars

(***************************************************************************)
(* C6: the block of a live allocation of n bytes has size at least n + 16, *)
(* so the n bytes from the payload pointer end before the block's footer.  *)
(***************************************************************************)
C6_SizeHonoured ==
    Settled =>
        \A i \in DOMAIN live :
            /\ W64Fits(live[i].n)
            /\ get_size(Heap, LiveBlock(i)) >= W64Val(live[i].n) + dsize
            /\ PayloadEnd(i) <= header_to_footer(Heap, LiveBlock(i))

\* the requests that do not wrap: a request of 2000 bytes in a block of 2016
\* and a request of 16 bytes in an unsplit block of 48
C6_Witness ==
    /\ Settled
    /\ \E i \in DOMAIN live :
           live[i].n = ToW64(2000) /\ get_size(Heap, LiveBlock(i)) = 2016
    /\ \E i \in DOMAIN live :
           live[i].n = ToW64(16) /\ get_size(Heap, LiveBlock(i)) = 48

(***************************************************************************)
(* C7: for every request n in 1..2^64-1 the adjusted size is a multiple of *)
(* 16, at least 32 and at least n + 16 (without wrapping), or allocate     *)
(* returns null.                                                           *)
(***************************************************************************)
SafeAdjusted(size, asize) ==
    /\ asize[1] % 16 = 0
    /\ W64Leq(ToW64(min_block_size), asize)
    /\ W64AddC(size, ToW64(dsize)).carry = 0
    /\ W64Leq(W64AddC(size, ToW64(dsize)).sum, asize)

C7_AdjustedSizeSafe ==
    (last.op = "malloc" /\ last.size # W64Zero) =>
        \/ SafeAdjusted(last.size, last.asize)
        \/ pc = "ready" /\ last.ret = NULL

(***************************************************************************)
(* C8: with a 16-byte aligned heap base every payload pointer returned by  *)
(* allocate is a multiple of 16.                                           *)
(***************************************************************************)
C8_PayloadAligned ==
    mem_heap_lo % 16 = 0 =>
        /\ \A i \in DOMAIN live : live[i].p % 16 = 0
        /\ last.op = "malloc" => last.ret % 16 = 0

\* live payloads in the first chunk and in the chunk of an extension
C8_Witness ==
    /\ Settled
    /\ \E i \in DOMAIN live : live[i].p < mem_heap_lo + chunksize
    /\ \E i \in DOMAIN live : live[i].p > mem_heap_lo + 2 * wsize + chunksize

(***************************************************************************)
(* C9: every block has a size that is a multiple of 16 and at least 32,    *)
(* and the blocks fill the bytes between the prologue footer and the       *)
(* epilogue header.                                                        *)
(***************************************************************************)
RECURSIVE SumSizes(_, _)
SumSizes(h, block) ==
    IF block \notin DOMAIN h.mem \/ block >= h.brk \/ get_size(h, block) <= 0
    THEN 0
    ELSE get_size(h, block) + SumSizes(h, find_next(h, block))

FirstBlock == mem_heap_lo + wsize

FreshHeap ==
    /\ mem_brk = mem_heap_lo + 2 * wsize + chunksize
    /\ heap_start = FirstBlock
    /\ free_list_head = FirstBlock
    /\ mem[mem_heap_lo] = pack(0, TRUE)
    /\ mem[mem_brk - wsize] = pack(0, TRUE)
    /\ mem[FirstBlock] = pack(chunksize, FALSE)
    /\ mem[FirstBlock + chunksize - wsize] = pack(chunksize, FALSE)
    /\ mem[prev_link(FirstBlock)] = NULL
    /\ mem[next_link(FirstBlock)] = NULL

C10_ReinitIdempotent ==
    [][(last.op = "reset" /\ last'.op = "init")
          => /\ pc' = "ready"
             /\ FreshHeap'
             /\ \A a \in DOMAIN mem' :
                    (a < mem_heap_lo \/ a >= mem_brk')
                        => (a \in DOMAIN mem /\ mem'[a] = mem[a])]_vars

(***************************************************************************)
(* C11: a release of the payload that the call just before, an allocate,   *)
(* returned leaves as many bytes in free blocks as there were before the   *)
(* allocate, plus the bytes by which that allocate extended the heap.      *)
(***************************************************************************)
C11_RoundTripFreeBytes ==
    before.op = "roundtrip" =>
        FreeBytes = before.free + (mem_brk - before.brk)

\* the round trip as stated without the extension: the free bytes are those
\* before the allocate
C11_RoundTripSameBytes ==
    before.op = "roundtrip" => FreeBytes = before.free

\* a round trip whose allocate extended the heap while another allocation
\* stayed live
C11_Witness ==
    /\ before.op = "roundtrip"
    /\ mem_brk > before.brk
    /\ DOMAIN live # {}

(***************************************************************************)
(* C12: coalesce applied to a free block whose two neighbours are          *)
(* allocated or sentinels merges nothing and leaves every header and       *)
(* footer as it was, but it inserts the block at the head of the free      *)
(* list: the head, the two link words of the block and the prev link of    *)
(* the former head are written.                                            *)
(***************************************************************************)
\* block is free in h and the boundary tags on both sides read allocated
MaximalFree(h, block) ==
    /\ ~get_alloc(h, block)
    /\ extract_alloc(h.mem[find_prev_footer(block)])
    /\ get_alloc(h, find_next(h, block))

\* the heap in which mm_free hands block to coalesce_block, mm.c 271-275
MarkedFree(h, block) ==
    write_footer(write_header(h, block, get_size(h, block), FALSE),
                 block, get_size(h, block), FALSE)

\* the words that an insertion of block at the head of the list writes
LinkWords(h, block) ==
    {prev_link(block), next_link(block)}
        \cup (IF h.flh = NULL THEN {} ELSE {prev_link(h.flh)})

CoalesceOnlyRelinks(h, block) ==
    LET h2 == coalesce_block(h, block)
    IN /\ h2.brk = h.brk
       /\ DOMAIN h2.mem = DOMAIN h.mem
       /\ \A a \in DOMAIN h.mem \ LinkWords(h, block) : h2.mem[a] = h.mem[a]
       /\ coalesce_result(h, block) = block
       /\ h2.flh = block
       /\ h2.mem[next_link(block)] = h.flh
       /\ h2.mem[prev_link(block)] = (IF h.flh = block THEN block ELSE NULL)
       /\ h.flh # NULL => h2.mem[prev_link(h.flh)] = block

CoalesceChangesNothing(h, block) ==
    LET h2 == coalesce_block(h, block)
    IN h2.mem = h.mem /\ h2.flh = h.flh /\ h2.brk = h.brk

C12_CoalesceMaximalRelinks ==
    pc = "ready" =>
        /\ \A b \in FreeBlocks :
               MaximalFree(Heap, b) => CoalesceOnlyRelinks(Heap, b)
        /\ \A i \in DOMAIN live :
               MaximalFree(MarkedFree(Heap, LiveBlock(i)), LiveBlock(i))
                   => CoalesceOnlyRelinks(MarkedFree(Heap, LiveBlock(i)), LiveBlock(i))

\* coalesce of a maximal free block as stated: no heap word and no part of
\* the free list changes
C12_CoalesceMaximalUnchanged ==
    pc = "ready" =>
        \A b \in FreeBlocks :
            MaximalFree(Heap, b) => CoalesceChangesNothing(Heap, b)

\* a release has just put a block between two allocated neighbours at the
\* head of a list of two or more, and a live block has allocated neighbours
C12_Witness ==
    /\ LastReleased
    /\ pc = "ready"
    /\ Freed = free_list_head
    /\ MaximalFree(Heap, Freed)
    /\ Len(FreeList) >= 2
    /\ \E i \in DOMAIN live :
           MaximalFree(MarkedFree(Heap, LiveBlock(i)), LiveBlock(i))

FirstCall(n) == nmalloc = 1 /\ last.op = "malloc" /\ last.size = ToW64(n)

\* the first call has taken a block of bsize bytes at the start of the heap
\* and has left one free block, which holds the rest of the first chunk
FreshAllocation(bsize) ==
    /\ pc = "ready"
    /\ last.ret = header_to_payload(FirstBlock)
    /\ get_size(Heap, FirstBlock) = bsize
    /\ get_alloc(Heap, FirstBlock)
    /\ Len(FreeList) = 1
    /\ FreeBlocks = {FreeList[1]}
    /\ get_size(Heap, FreeList[1]) = chunksize - bsize

C14_FreshAllocation48 ==
    /\ FirstCall(24) => FreshAllocation(48)
    /\ FirstCall(16) => FreshAllocation(32)

\* the scenario as stated: the free block has 4096 - 32 bytes
C14_FreshAllocation32 ==
    FirstCall(24) => FreshAllocation(32)

\* allocate(24) has been the first call after initialise
C14_Witness ==
    /\ FirstCall(24)
    /\ last.ret # NULL
    /\ mem_brk = mem_heap_lo + 2 * wsize + chunksize

(***************************************************************************)
(* C15: after initialise, allocate(4080) takes the whole free block        *)
(* without a split and empties the free list, and the allocate(16) that    *)
(* follows finds no fit and extends the heap; allocate(4048) is split and  *)
(* leaves a free block of 32 bytes, which the allocate(16) that follows    *)
(* takes without an extension.                                             *)
(***************************************************************************)
\* allocate(n2) has just followed allocate(n1), the first call
SecondCall(n1, n2) ==
    /\ nmalloc = 2
    /\ last.op = "malloc"
    /\ last.size = ToW64(n2)
    /\ 1 \in DOMAIN live
    /\ live[1].n = ToW64(n1)

\* the first call has taken the whole first chunk: no split, no free block
TookWholeChunk ==
    /\ pc = "ready"
    /\ last.ret = header_to_payload(FirstBlock)
    /\ get_size(Heap, FirstBlock) = chunksize
    /\ get_alloc(Heap, FirstBlock)
    /\ FreeList = <<>>
    /\ FreeBlocks = {}

\* the last call found no free block and extended the heap by one chunk
ExtendedOnMiss ==
    /\ pc = "ready"
    /\ last.ret # NULL
    /\ before.free = 0
    /\ mem_brk = before.brk + chunksize

C15_ExactFit4080 ==
    /\ FirstCall(4080) => TookWholeChunk
    /\ SecondCall(4080, 16) => ExtendedOnMiss
    /\ FirstCall(4048) => FreshAllocation(4064)
    /\ SecondCall(4048, 16) =>
           /\ pc = "ready"
           /\ last.ret = header_to_payload(FirstBlock + 4064)
           /\ mem_brk = before.brk
           /\ FreeList = <<>>

\* the scenario as stated, with allocate(4096 - 32 - 16)
C15_ExactFit4048 ==
    /\ FirstCall(4048) => TookWholeChunk
    /\ SecondCall(4048, 16) => ExtendedOnMiss

\* allocate(16) has followed allocate(4080) and the heap has grown
C15_Witness ==
    /\ SecondCall(4080, 16)
    /\ last.ret # NULL
    /\ HeapExtended

(***************************************************************************)
(* C16: allocate asks the provider for more heap only when no block of the *)
(* free list has size >= asize, and then for max(4096, asize) bytes; when  *)
(* the provider grants them the heap top advances by exactly that amount   *)
(* and the allocation succeeds in a block of size >= asize.                *)
(***************************************************************************)
\* what the allocate of size bytes asks the provider for in this state
WantedExtension(size) == max(ToW64(chunksize), adjusted_size(size))

AllocateStep == last'.op = "malloc" /\ nmalloc' = nmalloc + 1

C16_ExtensionOnMiss ==
    [][AllocateStep =>
          LET asize == adjusted_size(last'.size)
              fit == find_fit(Heap, asize)
              want == WantedExtension(last'.size)
          IN /\ last'.asize = asize
             /\ fit # NULL => mem_brk' = mem_brk
             /\ (fit = NULL /\ ~mem_sbrk(Heap, want).ok) => mem_brk' = mem_brk
             /\ (fit = NULL /\ mem_sbrk(Heap, want).ok) =>
                    /\ mem_brk' = mem_brk + W64Val(want)
                    /\ W64Val(want) = (IF W64Val(asize) > chunksize
                                       THEN W64Val(asize) ELSE chunksize)
                    /\ pc' = "ready"
                    /\ last'.ret # NULL
                    /\ payload_to_header(last'.ret) \in Blocks'
                    /\ get_size(Heap', payload_to_header(last'.ret)) >= W64Val(asize)
                    /\ payload_to_header(last'.ret) + W64Val(asize) > mem_brk - wsize]_vars

\* allocate(5000) found no fit while the last block was free, the heap grew
\* by 5024 bytes and the allocation succeeded
C16_Witness ==
    /\ last.op = "malloc"
    /\ last.size = ToW64(5000)
    /\ last.ret # NULL
    /\ pc = "ready"
    /\ before.free > 0
    /\ mem_brk = before.brk + 5024
    /\ payload_to_header(last.ret) < before.brk - wsize

(***************************************************************************)
(* C20: allocate splits the free block it takes when the residue is 32     *)
(* bytes or more: the returned block then has size asize and the residue   *)
(* is a free block in the free list, right after it; otherwise the         *)
(* returned block keeps the size of the free block and no free block is    *)
(* created.  Either way the size is in [asize, asize + 32).                *)
(***************************************************************************)
FreeBlocksOf(h) == {b \in BlocksFrom(h, heap_start) : ~get_alloc(h, b)}

\* the heap in which the allocate of size bytes looks for its block the last
\* time: the heap of this state, extended when nothing fits
SearchedHeap(size) ==
    IF find_fit(Heap, adjusted_size(size)) # NULL THEN Heap
    ELSE extend_heap(Heap, WantedExtension(size)).h

RECURSIVE ElemsFrom(_, _, _)
ElemsFrom(qs, ptr, n) ==
    IF ptr = NULL \/ ptr \notin DOMAIN qs.elems \/ n = 0 THEN <<>>
    ELSE <<ptr>> \o ElemsFrom(qs, qs.elems[ptr].next, n - 1)

QElems(qs) == ElemsFrom(qs, qs.head, qs.nalloc + 1)

QValues(qs) == [i \in 1..Len(QElems(qs)) |-> qs.elems[QElems(qs)[i]].value]

Reversed(seq) == [i \in 1..Len(seq) |-> seq[Len(seq) + 1 - i]]

\* this step is a call of op on the queue
QueueStep(op) == queue' # queue /\ queue'.last.op = op

\* the queue after the step is the queue before it, but for the record of
\* the last call
QueueKept ==
    queue' = [queue EXCEPT !.last = queue'.last]

(***************************************************************************)
(* C17: q_remove_head returns false and removes nothing when the queue is  *)
(* NULL or empty; otherwise it returns true and removes the head element,  *)
(* whether sp is NULL or not, and it copies the string when sp is not      *)
(* NULL.                                                                   *)
(***************************************************************************)
C17_RemoveHeadWithAnySp ==
    [][QueueStep("q_remove_head") =>
          IF queue.q = NULL \/ queue.size = 0
          THEN queue'.last.ret = 0 /\ QueueKept
          ELSE /\ queue'.last.ret = 1
               /\ QElems(queue') = Tail(QElems(queue))
               /\ queue'.size = queue.size - 1
               /\ queue.head \notin DOMAIN queue'.elems
               /\ queue'.last.sp = NULL => queue'.last.buf = <<>>
               /\ queue'.last.sp # NULL => queue'.last.buf # <<>>]_vars

(***************************************************************************)
(* C18: q_reverse has no effect on a NULL or empty queue; otherwise the    *)
(* elements read from head afterwards are those before in reverse order,   *)
(* no element is allocated or freed, the size is the same, tail is the     *)
(* former head element and a second q_reverse restores the order.          *)
(***************************************************************************)
C18_ReverseReverses ==
    [][QueueStep("q_reverse") =>
          IF queue.q = NULL \/ queue.size = 0
          THEN QueueKept
          ELSE /\ QElems(queue') = Reversed(QElems(queue))
               /\ QValues(queue') = Reversed(QValues(queue))
               /\ DOMAIN queue'.elems = DOMAIN queue.elems
               /\ \A e \in DOMAIN queue.elems :
                      queue'.elems[e].value = queue.elems[e].value
               /\ queue'.nalloc = queue.nalloc
               /\ queue'.size = queue.size
               /\ queue'.tail = queue.head
               /\ QElems(q_reverse(queue')) = QElems(queue)]_vars

(***************************************************************************)
(* C19: an access whose tag is valid in its set counts one hit and changes *)
(* no tag; any other access counts one miss and puts the tag in the first  *)
(* line that is not valid or, when all E lines are valid, in the line      *)
(* whose last access is the oldest, counting one eviction.  So hits plus   *)
(* misses is the number of accesses and evictions <= misses.               *)
(***************************************************************************)
\* the lines of the set of addr that hold its tag
HitLines(c, addr) ==
    {j \in 1..csim_E : /\ c.lines[AddrSet(addr)][j].valid # 0
                       /\ c.lines[AddrSet(addr)][j].tag = AddrTag(addr)}

InvalidLines(c, addr) ==
    {j \in 1..csim_E : c.lines[AddrSet(addr)][j].valid = 0}

\* the lines of the set of addr whose last access is the oldest
OldestLines(c, addr) ==
    {j \in 1..csim_E :
        \A k \in 1..csim_E :
            c.stamp[AddrSet(addr)][j] <= c.stamp[AddrSet(addr)][k]}

\* line j of the set of addr has the same tag and valid flag in c and c2
SameLine(c, c2, addr, j) ==
    /\ c2.lines[AddrSet(addr)][j].tag = c.lines[AddrSet(addr)][j].tag
    /\ c2.lines[AddrSet(addr)][j].valid = c.lines[AddrSet(addr)][j].valid

\* line j of the set of addr has taken the tag of addr, the others are as
\* they were
Replaced(c, c2, addr, j) ==
    /\ c2.lines[AddrSet(addr)][j].tag = AddrTag(addr)
    /\ c2.lines[AddrSet(addr)][j].valid # 0
    /\ \A k \in (1..csim_E) \ {j} : SameLine(c, c2, addr, k)

\* the access of addr that leads from c to c2 is what an LRU cache does
AccessIsLRU(c, c2, addr) ==
    /\ c2.naccess = c.naccess + 1
    /\ \A i \in (0..(csim_S - 1)) \ {AddrSet(addr)} : c2.lines[i] = c.lines[i]
    /\ IF HitLines(c, addr) # {}
       THEN /\ c2.hit_count = c.hit_count + 1
            /\ c2.miss_count = c.miss_count
            /\ c2.eviction_count = c.eviction_count
            /\ \A j \in 1..csim_E : SameLine(c, c2, addr, j)
       ELSE /\ c2.hit_count = c.hit_count
            /\ c2.miss_count = c.miss_count + 1
            /\ IF InvalidLines(c, addr) # {}
               THEN /\ c2.eviction_count = c.eviction_count
                    /\ \E j \in InvalidLines(c, addr) : Replaced(c, c2, addr, j)
               ELSE /\ c2.eviction_count = c.eviction_count + 1
                    /\ \E j \in OldestLines(c, addr) : Replaced(c, c2, addr, j)

C19_ReplacementIsLRU ==
    cache.pc = "replay" =>
        /\ \A addr \in Addresses, mru0 \in MRUSamples :
               AccessIsLRU(cache, accessData(cache, addr, mru0), addr)
        /\ cache.hit_count + cache.miss_count = cache.naccess
        /\ cache.eviction_count <= cache.miss_count

(***************************************************************************)
(* C21: allocate takes the first block in free-list order whose size is    *)
(* >= asize, whatever its address and however well it fits; after          *)
(* release(p) the block that holds the freed bytes is the head of the free *)
(* list with a null prev link, and the free blocks it did not absorb       *)
(* follow it in the order they had before.                                 *)
(***************************************************************************)
FreeListOf(h) == ListFrom(h, h.flh, {})

\* the positions in the free list of h of the blocks of size >= asize
FittingAt(h, asize) ==
    {k \in 1..Len(FreeListOf(h)) : get_size(h, FreeListOf(h)[k]) >= asize}

FirstFitting(h, asize) ==
    FreeListOf(h)[CHOOSE k \in FittingAt(h, asize) :
                      \A j \in FittingAt(h, asize) : k <= j]

ReleaseStep == last'.op = "free" /\ last'.ret # NULL /\ nmalloc' = nmalloc

\* block b lies inside the block that starts at head in the heap h
Absorbed(h, head, b) == head <= b /\ b < head + get_size(h, head)

\* the free list before the step without the blocks that the head of the
\* list after the step has absorbed
Survivors ==
    LET Kept(b) == ~Absorbed(Heap', free_list_head', b)
    IN SelectSeq(FreeList, Kept)

C21_WitnessRelease ==
    /\ LastReleased
    /\ pc = "ready"
    /\ Len(FreeList) >= 3
    /\ FreeList[1] = Freed
    /\ FreeList[2] > FreeList[3]

(***************************************************************************)
(* C22: in the runs of initialise, allocate and release of live payloads   *)
(* every call of remove_block is made on a block that is linked in the     *)
(* free list at that moment and every call of insert_block on a block that *)
(* is not; an allocate that returns a payload removes the chosen block     *)
(* before the residue of the split is inserted.                            *)
(***************************************************************************)
\* the positions in calls of the calls of op on block
CallsOf(op, block) ==
    {k \in 1..Len(calls) : calls[k].op = op /\ calls[k].block = block}

Sentinel(h, addr) ==
    /\ addr \in DOMAIN h.mem
    /\ extract_size(h.mem[addr]) = 0
    /\ extract_alloc(h.mem[addr])

SentinelsIntact(h) == Sentinel(h, mem_heap_lo) /\ Sentinel(h, h.brk - wsize)

\* this step is an allocate that found no fit and got more heap
ExtendingStep ==
    /\ AllocateStep
    /\ last'.size # W64Zero
    /\ find_fit(Heap, adjusted_size(last'.size)) = NULL
    /\ extend_heap(Heap, WantedExtension(last'.size)).ok

C23_SentinelIntegrity ==
    [][/\ Settled' => SentinelsIntact(Heap')
       /\ ExtendingStep =>
              LET want == W64Val(WantedExtension(last'.size))
                  e == extend_heap(Heap, WantedExtension(last'.size))
                  old == mem_brk - wsize
              IN /\ Sentinel(Heap, old)
                 /\ e.h.mem[old] = pack(want, FALSE)
                 /\ e.h.brk = mem_brk + want
                 /\ Sentinel(e.h, e.h.brk - wsize)
                 /\ mem_brk' = e.h.brk
                 /\ Absorbed(e.h, e.block, old)
                 /\ extract_alloc(mem[old - wsize]) =>
                        /\ e.block = old
                        /\ payload_to_header(last'.ret) = old
                        /\ get_alloc(Heap', old)]_vars

\* an allocate extended a heap whose last block was allocated: the block it
\* returned starts at the former epilogue and the heap ends with a new one
C23_Witness ==
    /\ last.op = "malloc"
    /\ last.ret # NULL
    /\ pc = "ready"
    /\ before.op = "malloc"
    /\ mem_brk > before.brk
    /\ payload_to_header(last.ret) = before.brk - wsize
    /\ Sentinel(Heap, mem_brk - wsize)
    /\ Sentinel(Heap, mem_heap_lo)

(***************************************************************************)
(* C24: the heap never shrinks.  The top of the heap never moves down, it  *)
(* moves only in initialise and in an allocate that found no fit, and a    *)
(* release changes neither bound of the heap.                              *)
(***************************************************************************)
\* mem_heap_hi(): the last byte of the heap
mem_heap_hi == mem_brk - 1

InitialiseStep == last'.op = "init" /\ pc = "fresh"

C24_HeapNeverShrinks ==
    [][/\ mem_heap_hi' >= mem_heap_hi
       /\ mem_heap_hi' # mem_heap_hi =>
              \/ InitialiseStep
              \/ /\ AllocateStep
                 /\ last'.size # W64Zero
                 /\ find_fit(Heap, adjusted_size(last'.size)) = NULL
       /\ (last'.op = "free" /\ pc = "ready") =>
              mem_heap_hi' = mem_heap_hi /\ heap_start' = heap_start]_vars

\* a release merged the freed block with the rest of a heap that an earlier
\* allocate had extended: the heap keeps its size, all of it free
C24_Witness ==
    /\ LastReleased
    /\ pc = "ready"
    /\ HeapExtended
    /\ DOMAIN live = {}
    /\ FreeBytes = mem_brk - mem_heap_lo - 2 * wsize

(***************************************************************************)
(* C25: between public operations the free list is a well-formed doubly    *)
(* linked list: the prev link of the head is null, the prev link of the    *)
(* successor of a node is that node, the next link of the last node is     *)
(* null and no node is met twice, so the scan of find_fit ends after it    *)
(* has visited each free block at most once.                               *)
(***************************************************************************)
\* the blocks that the scan of find_fit visits for a size that nothing fits
RECURSIVE ScanFrom(_, _, _)
ScanFrom(h, ptr, n) ==
    IF ptr = NULL \/ n = 0 THEN <<>>
    ELSE <<ptr>> \o ScanFrom(h, h.mem[next_link(ptr)], n - 1)

\* no more nodes than words in the heap
ScanBound == (mem_brk - mem_heap_lo) \div wsize

WellFormedList(h) ==
    LET list == ScanFrom(h, h.flh, ScanBound)
    IN /\ Len(list) < ScanBound
       /\ \A i, j \in 1..Len(list) : list[i] = list[j] => i = j
       /\ list # <<>> => /\ list[1] = h.flh
                         /\ h.mem[prev_link(list[1])] = NULL
                         /\ h.mem[next_link(list[Len(list)])] = NULL
       /\ \A i \in 1..(Len(list) - 1) :
              /\ h.mem[next_link(list[i])] = list[i + 1]
              /\ h.mem[prev_link(list[i + 1])] = list[i]
       /\ {list[i] : i \in 1..Len(list)} = FreeBlocksOf(h)
       /\ find_fit(h, ToW64(h.brk)) = NULL

Checked == last.op = "check" /\ pc \in {"ready", "damaged"}

MismatchedBlocks == {b \in Blocks : mem[b] # mem[header_to_footer(Heap, b)]}

C26_CheckFindsMismatch ==
    (Checked /\ MismatchedBlocks # {}) => last.ret = 0

(***************************************************************************)
(* C27: check_heap returns false on every heap that contains two free      *)
(* blocks that are neighbours in the heap.                                 *)
(***************************************************************************)
AdjacentFreePairs ==
    {b \in Blocks : /\ ~get_alloc(Heap, b)
                    /\ find_next(Heap, b) \in Blocks
                    /\ ~get_alloc(Heap, find_next(Heap, b))}

C27_CheckFindsAdjacentFree ==
    (Checked /\ AdjacentFreePairs # {}) => last.ret = 0

\* check_heap returned false for a mismatch in a block that is not the last
CheckCaughtMismatch ==
    /\ Checked
    /\ last.ret = 0
    /\ MismatchedBlocks # {}
    /\ \A b \in Blocks : ~get_alloc(Heap, b) => b = free_list_head

\* check_heap returned true for an intact heap with live and free blocks
CheckPassedIntact ==
    /\ Checked
    /\ pc = "ready"
    /\ last.ret = 1
    /\ DOMAIN live # {}

(***************************************************************************)
(* C28: after any calls of q_insert_head, q_insert_tail, q_remove_head and *)
(* q_reverse on a queue made by q_new, size is the number of elements      *)
(* reachable from head and, when the queue is not empty, tail is the last  *)
(* of them and its next is NULL; q_insert_tail never follows a tail that   *)
(* is NULL or freed.                                                       *)
(***************************************************************************)
C28_SizeAndTail ==
    /\ ~(queue.pc = "crashed" /\ queue.last.op = "q_insert_tail")
    /\ queue.pc = "live" =>
           /\ queue.size = Len(QElems(queue))
           /\ queue.size > 0 =>
                  /\ queue.tail \in DOMAIN queue.elems
                  /\ queue.tail = QElems(queue)[Len(QElems(queue))]
                  /\ queue.elems[queue.tail].next = NULL

====
